---- MODULE Spec2Model ----
\* Gateway image-generation route (routes/image.py) and token service
\* (auth/tokens.py) as state machines.
EXTENDS Integers, Sequences, FiniteSets, TLC

\* ---------------------------------------------------------------- bounds

\* Chunks the upstream iterator delivers before it is exhausted, at most.
MaxChunks == 3
\* Parts carried by one stream (all chunks together) or by one response, at most.
MaxParts == 3
\* Clock ticks in one second (the clock is finer than the claims' seconds).
TicksPerSecond == 2
\* Minutes the token clock runs for after its start.
MaxMinutes == 3
\* Single ticks the token clock takes after each whole minute, at most.
MaxFineTicks == 2

\* ------------------------------------------------------- Python values

None == [kind |-> "none"]
Str(s) == [kind |-> "str", val |-> s]
Bytes(b) == [kind |-> "bytes", val |-> b]
ByteArray(b) == [kind |-> "bytearray", val |-> b]

\* bool(v) of the values the route tests for truth.
Truthy(v) ==
    CASE v.kind = "none" -> FALSE
      [] v.kind = "str" -> v.val # ""
      [] v.kind = "bytes" -> v.val # <<>>
      [] v.kind = "bytearray" -> v.val # <<>>
      [] OTHER -> TRUE

\* str.startswith
startswith(s, prefix) ==
    /\ Len(s) >= Len(prefix)
    /\ SubSeq(s, 1, Len(prefix)) = prefix

B64Alphabet ==
    << "A", "B", "C", "D", "E", "F", "G", "H", "I", "J", "K", "L", "M",
       "N", "O", "P", "Q", "R", "S", "T", "U", "V", "W", "X", "Y", "Z",
       "a", "b", "c", "d", "e", "f", "g", "h", "i", "j", "k", "l", "m",
       "n", "o", "p", "q", "r", "s", "t", "u", "v", "w", "x", "y", "z",
       "0", "1", "2", "3", "4", "5", "6", "7", "8", "9", "+", "/" >>
B64Char(i) == B64Alphabet[i + 1]

\* base64.b64encode(data).decode("utf-8"), as the sequence of its characters:
\* three bytes to four characters, the last group padded with "=".
RECURSIVE b64encode(_)
b64encode(b) ==
    IF Len(b) = 0 THEN <<>>
    ELSE LET n == IF Len(b) < 3 THEN Len(b) ELSE 3
             b2 == IF n >= 2 THEN b[2] ELSE 0
             b3 == IF n >= 3 THEN b[3] ELSE 0
             v == b[1] * 65536 + b2 * 256 + b3
             c1 == B64Char(v \div 262144)
             c2 == B64Char((v \div 4096) % 64)
             c3 == IF n >= 2 THEN B64Char((v \div 64) % 64) ELSE "="
             c4 == IF n >= 3 THEN B64Char(v % 64) ELSE "="
         IN <<c1, c2, c3, c4>> \o b64encode(SubSeq(b, n + 1, Len(b)))

\* ------------------------------------------------- upstream data shapes

\* A part as the route reads it: getattr(part, "text", None),
\* getattr(part, "thought", False), getattr(part, "inline_data", None).
Part(text, thought, inline_data) ==
    [text |-> text, thought |-> thought, inline_data |-> inline_data]
Inline(data, mime_type) ==
    [kind |-> "inline", data |-> data, mime_type |-> mime_type]

Parts ==
    { Part(Str("thinking"), TRUE, None),
      Part(Str("caption"), FALSE, Inline(Str("not-bytes"), Str("image/gif"))),
      Part(None, FALSE, Inline(Bytes(<<137, 80>>), Str("text/plain"))),
      Part(Str("alt"), FALSE, Inline(ByteArray(<<255>>), Str("image/jpeg"))),
      Part(Str(""), TRUE, Inline(Bytes(<<7, 7, 7, 7>>), None)) }

\* Sequences over S of length at most n.
SeqUpTo(S, n) == UNION { [1..k -> S] : k \in 0..n }

\* A chunk (or a whole response) carries its parts directly, or nested in
\* candidates[0].content.parts; the shape is the one the SDK build produces.
Shapes == {"direct", "nested"}
Chunk(shape, ps) ==
    IF shape = "direct"
    THEN [parts |-> ps, candidates |-> <<>>]
    ELSE [parts |-> <<>>, candidates |-> << [content |-> [parts |-> ps]] >>]

\* _iter_parts(chunk)
iter_parts(chunk) ==
    IF chunk.parts # <<>> THEN chunk.parts
    ELSE IF chunk.candidates # <<>>
         THEN LET parts == chunk.candidates[1].content.parts
              IN IF parts # <<>> THEN parts ELSE <<>>
         ELSE <<>>

\* _format_sse_event(payload): one "data:" frame holding the JSON payload.
format_sse_event(payload) == [data |-> payload]

\* Messages an upstream exception may carry (str(e)).
Messages == {"quota exceeded"}

\* ------------------------------------------------- identity and admission

Users == {"u1"}

\* The tuple verify_jwt_or_api_key_or_master hands to the route:
\* (api_key, is_master, user_id, session_token).
AuthResult(api_key, is_master, uid, session_token) ==
    [api_key |-> api_key, is_master |-> is_master, user_id |-> uid,
     session_token |-> session_token]
APIKeyRecord(owner) == [kind |-> "api_key", user_id |-> owner]

AuthResults ==
    {AuthResult(None, TRUE, None, None)}
    \cup {AuthResult(None, FALSE, Str(u), [kind |-> "session"]) : u \in Users}
    \cup {AuthResult(APIKeyRecord(Str(u)), FALSE, None, None) : u \in Users}
    \cup {AuthResult(APIKeyRecord(None), FALSE, None, None),
          AuthResult(None, FALSE, None, None)}

HTTPException(status_code, detail) ==
    [kind |-> "error", status_code |-> status_code, detail |-> detail]

Ok(value) == [kind |-> "ok", value |-> value]

\* resolve_target_user(auth_result, explicit_user, missing_master_detail)
resolve_target_user(auth_result, explicit_user, missing_master_detail) ==
    IF auth_result.is_master
    THEN IF ~Truthy(explicit_user)
         THEN HTTPException(400, missing_master_detail)
         ELSE Ok(explicit_user)
    ELSE LET target == IF Truthy(auth_result.user_id) THEN auth_result.user_id
                       ELSE IF auth_result.api_key # None
                            THEN auth_result.api_key.user_id
                            ELSE None
         IN IF ~Truthy(target)
            THEN HTTPException(401, "User not resolved")
            ELSE Ok(target)

MaxSpend == 3

\* The store's view of one tenant, as the gate reads it. NoLimit stands for a
\* null ceiling or an unlimited credit balance.
NoLimit == [kind |-> "none"]
Num(n) == [kind |-> "num", val |-> n]
BudgetState(exists, blocked, spend, ceiling, credit) ==
    [exists |-> exists, blocked |-> blocked, spend |-> spend,
     ceiling |-> ceiling, credit |-> credit]
BudgetStates ==
    { BudgetState(e, b, s, c, k) :
        e \in BOOLEAN, b \in BOOLEAN, s \in 0..2,
        c \in {NoLimit, Num(1), Num(2)}, k \in {NoLimit, Num(0), Num(1)} }

\* validate_user_credit admitting a spend that has reached the ceiling.
validate_user_credit_inclusive(st) ==
    IF ~st.exists THEN HTTPException(404, "User not found")
    ELSE IF st.blocked THEN HTTPException(403, "AccountBlocked")
    ELSE IF st.ceiling # NoLimit /\ ~(st.spend <= st.ceiling.val)
         THEN HTTPException(402, "BudgetExceeded")
    ELSE IF st.credit # NoLimit /\ ~(st.credit.val > 0)
         THEN HTTPException(402, "BudgetExceeded")
    ELSE Ok(None)

\* validate_user_credit(db, user_id)
validate_user_credit(st) ==
    IF ~st.exists THEN HTTPException(404, "User not found")
    ELSE IF st.blocked THEN HTTPException(403, "AccountBlocked")
    ELSE IF st.ceiling # NoLimit /\ ~(st.spend < st.ceiling.val)
         THEN HTTPException(402, "BudgetExceeded")
    ELSE IF st.credit # NoLimit /\ ~(st.credit.val > 0)
         THEN HTTPException(402, "BudgetExceeded")
    ELSE Ok(None)

\* ------------------------------------------------------------- the state

VARIABLES
    pc,             \* position of generate_image: resolve, credit, apikey,
                    \* build, call, done (the handler has returned or raised)
    request,        \* GenerateImageRequest (the stream flag)
    user_id,        \* _user_id
    response,       \* what the handler returned or raised; None before
    client,         \* genai.Client: none, open, closed (close() returned),
                    \* close_failed (close() raised and was swallowed)
    upstream_calls, \* provider calls issued, in order
    shape,          \* shape of the chunks this SDK build produces
    pulled,         \* chunks the stream iterator has delivered, in order
    raised,         \* message of the exception the iterator raised, or None
    resp,           \* the synchronous response object, or None
    idx,            \* index of the current part in the current chunk
    gen,            \* event_stream generator: none, created, running
                    \* (between two yields), suspended (at a yield), closed
                    \* (it returned or was closed), failed (an exception
                    \* left it)
    gpos,           \* position in event_stream: iter, text, inline, finally, end
    events,         \* frames the generator has yielded, in order
    disconnected,   \* the client went away before the stream ended
    config,         \* GatewayConfig fields the token service reads
    now,            \* the clock, in ticks
    sign_args,      \* arguments of the last sign_access_token call, or None
    token,          \* the token in hand (as signed, or as tampered with), or None
    verdict,        \* outcome of the last sign or verify call, or None
    creds,          \* credentials and parameters an inbound request presents
    auth_result,    \* the tuple the credential resolver hands to the route
    steps,          \* verifications, lookups and comparisons made, in order
    store,          \* BudgetState of the tenant in the collaborator store
    reqs,           \* concurrent generation requests of the tenant, by id
    ledger          \* rows the route has handed to the usage ledger, in order

routeVars == <<pc, request, user_id, response, client, upstream_calls, shape,
               pulled, raised, resp, idx, gen, gpos, events, disconnected>>
tokenVars == <<config, now, sign_args, token, verdict>>
authVars == <<creds, auth_result, steps>>
gateVars == <<store, reqs, ledger>>
vars == <<routeVars, tokenVars, authVars, gateVars>>
\* What the generate_image handler and its stream never touch.
serviceVars == <<tokenVars, authVars, gateVars>>

\* The token service at rest, for the route's specification.
TokenIdle ==
    /\ config = None
    /\ now = 0
    /\ sign_args = None
    /\ token = None
    /\ verdict = None

\* The credential resolver at rest: the route is handed its result directly.
AuthIdle ==
    /\ creds = None
    /\ auth_result = None
    /\ steps = <<>>

\* No store and no concurrent requests: the gate's reading is an input.
GateIdle ==
    /\ store = None
    /\ reqs = <<>>
    /\ ledger = <<>>

Init ==
    /\ pc = "resolve"
    /\ request \in [stream : BOOLEAN]
    /\ user_id = None
    /\ response = None
    /\ client = "none"
    /\ upstream_calls = <<>>
    /\ shape = "direct"
    /\ pulled = <<>>
    /\ raised = None
    /\ resp = None
    /\ idx = 0
    /\ gen = "none"
    /\ gpos = "none"
    /\ events = <<>>
    /\ disconnected = FALSE
    /\ TokenIdle
    /\ AuthIdle
    /\ GateIdle

streamVars == <<shape, pulled, raised, idx, gen, gpos, events, disconnected>>

\* ------------------------------------------------ generate_image, prelude

MasterDetail ==
    "When using master key, use chat endpoints to specify 'user' or use an access token"

\* _user_id = resolve_target_user(auth_result, explicit_user=None, ...) for
\* the tuple given: the handler goes on with the tenant, or raises.
resolve_user(given) ==
    LET r == resolve_target_user(given, None, MasterDetail)
    IN IF r.kind = "ok"
       THEN /\ user_id' = r.value
            /\ pc' = "credit"
            /\ UNCHANGED response
       ELSE /\ response' = r
            /\ pc' = "done"
            /\ UNCHANGED user_id

\* generate_image is entered with some tuple of the resolver.
ResolveUser ==
    /\ pc = "resolve"
    /\ \E given \in AuthResults : resolve_user(given)
    /\ UNCHANGED <<request, client, upstream_calls, resp>>
    /\ UNCHANGED streamVars
    /\ UNCHANGED serviceVars

\* ValidateCredit with the gate's rejection noted but not raised: the handler
\* goes on.
ValidateCreditGoesOn ==
    /\ pc = "credit"
    /\ \E st \in BudgetStates :
         LET r == validate_user_credit(st)
         IN IF r.kind = "ok"
            THEN UNCHANGED response
            ELSE response' = r
    /\ pc' = "apikey"
    /\ UNCHANGED <<request, user_id, client, upstream_calls, resp>>
    /\ UNCHANGED streamVars
    /\ UNCHANGED serviceVars

\* validate_user_credit(db, _user_id)
ValidateCredit ==
    /\ pc = "credit"
    /\ \E st \in BudgetStates :
         LET r == validate_user_credit(st)
         IN IF r.kind = "ok"
            THEN /\ pc' = "apikey"
                 /\ UNCHANGED response
            ELSE /\ response' = r
                 /\ pc' = "done"
    /\ UNCHANGED <<request, user_id, client, upstream_calls, resp>>
    /\ UNCHANGED streamVars
    /\ UNCHANGED serviceVars

\* _get_gemini_api_key(config)
get_gemini_api_key(api_key) ==
    IF ~Truthy(api_key) \/ api_key.kind # "str"
    THEN HTTPException(500, "Gemini provider api_key is not configured on the gateway")
    ELSE Ok(api_key)

ProviderKeys == {None, Str(""), Num(7), Str("g-key")}

\* if genai is None: raise ...; api_key = _get_gemini_api_key(config)
GetApiKey ==
    /\ pc = "apikey"
    /\ \E installed \in BOOLEAN, api_key \in ProviderKeys :
         LET r == IF ~installed
                  THEN HTTPException(500, "google-genai dependency is not installed")
                  ELSE get_gemini_api_key(api_key)
         IN IF r.kind = "ok"
            THEN /\ pc' = "build"
                 /\ UNCHANGED response
            ELSE /\ response' = r
                 /\ pc' = "done"
    /\ UNCHANGED <<request, user_id, client, upstream_calls, resp>>
    /\ UNCHANGED streamVars
    /\ UNCHANGED serviceVars

GenerationFailed(msg) == HTTPException(502, "Image generation failed: " \o msg)

\* try: client = genai.Client(...); ...; content_config = ... except Exception
BuildClient ==
    /\ pc = "build"
    /\ \/ /\ client' = "open"
          /\ pc' = "call"
          /\ UNCHANGED response
       \/ \E msg \in Messages :          \* genai.Client(...) raises
            /\ response' = GenerationFailed(msg)
            /\ pc' = "done"
            /\ UNCHANGED client
       \/ \E msg \in Messages :          \* a genai.types constructor raises
            /\ client' = "open"
            /\ response' = GenerationFailed(msg)
            /\ pc' = "done"
    /\ UNCHANGED <<request, user_id, upstream_calls, resp>>
    /\ UNCHANGED streamVars
    /\ UNCHANGED serviceVars

\* --------------------------------------------------- part projections

\* text_value = getattr(part, "text", None); isinstance(text_value, str) and text_value
has_text(part) == part.text.kind = "str" /\ part.text.val # ""

\* data = getattr(inline_data, "data", None) if inline_data is not None else None
inline_payload(part) ==
    IF part.inline_data # None THEN part.inline_data.data ELSE None

\* candidate_mime_type = getattr(inline_data, "mime_type", None) if ... else None
inline_mime(part) ==
    IF part.inline_data # None THEN part.inline_data.mime_type ELSE None

\* if not data: continue / bytearray -> bytes / if not isinstance(data, bytes): continue
has_image(part) ==
    LET data == inline_payload(part)
    IN /\ Truthy(data)
       /\ data.kind \in {"bytes", "bytearray"}

\* is_image_mime without the prefix test: any declared string is taken.
is_image_mime_any(candidate_mime_type) ==
    candidate_mime_type.kind = "str"

\* isinstance(candidate_mime_type, str) and candidate_mime_type.startswith("image/")
is_image_mime(candidate_mime_type) ==
    /\ candidate_mime_type.kind = "str"
    /\ startswith(candidate_mime_type.val, "image/")

\* text_event without the thought flag: every text goes out as "text".
text_event_unflagged(part) ==
    format_sse_event([type |-> "text", content |-> part.text.val])

\* The text frame of a part (event_stream, first projection).
text_event(part) ==
    IF part.thought
    THEN format_sse_event([type |-> "thought", content |-> part.text.val])
    ELSE format_sse_event([type |-> "text", content |-> part.text.val])

\* The image frame of a part (event_stream, second projection).
image_event(part) ==
    LET candidate_mime_type == inline_mime(part)
        mime_type == IF is_image_mime(candidate_mime_type)
                     THEN candidate_mime_type.val
                     ELSE "image/png"
    IN format_sse_event([type |-> "image", mimeType |-> mime_type,
                         base64 |-> b64encode(inline_payload(part).val)])

done_event == format_sse_event([type |-> "done"])
error_event(msg) == format_sse_event([type |-> "error", message |-> msg])

\* ------------------------------------------ generate_image, synchronous

\* The loop over the response's parts: texts and thoughts are collected until
\* the first part with a byte payload, where the loop breaks.
RECURSIVE scan_parts(_, _, _)
scan_parts(parts, i, acc) ==
    IF i > Len(parts) THEN acc
    ELSE LET part == parts[i]
             acc1 == IF has_text(part)
                     THEN IF part.thought
                          THEN [acc EXCEPT !.thoughts = Append(@, part.text.val)]
                          ELSE [acc EXCEPT !.texts = Append(@, part.text.val)]
                     ELSE acc
         IN IF ~has_image(part) THEN scan_parts(parts, i + 1, acc1)
            ELSE [acc1 EXCEPT
                    !.mime_type = IF is_image_mime(inline_mime(part))
                                  THEN inline_mime(part).val ELSE @,
                    !.image_bytes = Bytes(inline_payload(part).val)]

\* sync_result without the "no image parts" check: an empty image goes out.
sync_result_unchecked(r) ==
    LET parts == r.parts
        acc == scan_parts(parts, 1,
                          [texts |-> <<>>, thoughts |-> <<>>,
                           image_bytes |-> Bytes(<<>>), mime_type |-> "image/png"])
    IN [kind |-> "json", mimeType |-> acc.mime_type,
        base64 |-> b64encode(acc.image_bytes.val),
        texts |-> acc.texts, thoughts |-> acc.thoughts]

\* parts = getattr(resp, "parts", None) or [] ... return GenerateImageResponse
sync_result(r) ==
    LET parts == r.parts
        acc == scan_parts(parts, 1,
                          [texts |-> <<>>, thoughts |-> <<>>,
                           image_bytes |-> None, mime_type |-> "image/png"])
    IN IF ~Truthy(acc.image_bytes)
       THEN HTTPException(502, "Image generation returned no image parts")
       ELSE [kind |-> "json", mimeType |-> acc.mime_type,
             base64 |-> b64encode(acc.image_bytes.val),
             texts |-> acc.texts, thoughts |-> acc.thoughts]

\* resp = client.models.generate_content(...) and the rest of the handler
CallSync ==
    /\ pc = "call"
    /\ ~request.stream
    /\ upstream_calls' = Append(upstream_calls, "generate_content")
    /\ \/ \E msg \in Messages :
            /\ response' = GenerationFailed(msg)
            /\ UNCHANGED resp
       \/ \E sh \in Shapes, ps \in SeqUpTo(Parts, MaxParts) :
            /\ resp' = Chunk(sh, ps)
            /\ response' = sync_result(resp')
    /\ pc' = "done"
    /\ UNCHANGED <<request, user_id, client>>
    /\ UNCHANGED streamVars
    /\ UNCHANGED serviceVars

\* -------------------------------------------- generate_image, streaming

\* CallStream going on to the synchronous call when the streaming call fails.
CallStreamFallsThrough ==
    /\ pc = "call"
    /\ request.stream
    /\ \E has_stream_method \in BOOLEAN :
         LET name == IF has_stream_method THEN "generate_content_stream"
                     ELSE "generate_content(stream=True)"
         IN \/ \E msg \in Messages :
                 /\ upstream_calls' = upstream_calls \o << name, "generate_content" >>
                 /\ response' = GenerationFailed(msg)
                 /\ UNCHANGED <<gen, shape>>
            \/ \E sh \in Shapes :
                 /\ upstream_calls' = Append(upstream_calls, name)
                 /\ shape' = sh
                 /\ response' = [kind |-> "stream"]
                 /\ gen' = "created"
    /\ pc' = "done"
    /\ UNCHANGED <<request, user_id, client, resp>>
    /\ UNCHANGED <<pulled, raised, idx, gpos, events, disconnected>>
    /\ UNCHANGED serviceVars

\* stream = client.models.generate_content_stream(...) or
\* client.models.generate_content(..., stream=True); return StreamingResponse
CallStream ==
    /\ pc = "call"
    /\ request.stream
    /\ \E has_stream_method \in BOOLEAN :
         upstream_calls' =
            Append(upstream_calls,
                   IF has_stream_method THEN "generate_content_stream"
                   ELSE "generate_content(stream=True)")
    /\ \/ \E msg \in Messages :
            /\ response' = GenerationFailed(msg)
            /\ UNCHANGED <<gen, shape>>
       \/ \E sh \in Shapes :
            /\ shape' = sh
            /\ response' = [kind |-> "stream"]
            /\ gen' = "created"
    /\ pc' = "done"
    /\ UNCHANGED <<request, user_id, client, resp>>
    /\ UNCHANGED <<pulled, raised, idx, gpos, events, disconnected>>
    /\ UNCHANGED serviceVars

handlerVars ==
    <<pc, request, user_id, response, upstream_calls, resp, shape, serviceVars>>

\* Parts delivered so far by the stream.
RECURSIVE parts_delivered(_)
parts_delivered(chunks) ==
    IF chunks = <<>> THEN 0
    ELSE Len(iter_parts(Head(chunks))) + parts_delivered(Tail(chunks))

current_parts == iter_parts(pulled[Len(pulled)])

\* The generator executes from position pos: it is running there, or the
\* consumer's next() resumes it there (a new generator starts at the loop).
At(pos) ==
    \/ gen = "created" /\ pos = "iter"
    \/ gen \in {"running", "suspended"} /\ gpos = pos

\* NextChunk without the except clause: the iterator's exception leaves the
\* generator.
NextChunkUncaught ==
    /\ At("iter")
    /\ \/ /\ Len(pulled) < MaxChunks
          /\ \E ps \in SeqUpTo(Parts, MaxParts - parts_delivered(pulled)) :
               /\ pulled' = Append(pulled, Chunk(shape, ps))
               /\ idx' = 1
               /\ gpos' = IF ps = <<>> THEN "iter" ELSE "text"
          /\ gen' = "running"
          /\ UNCHANGED <<raised, events>>
       \/ /\ events' = Append(events, done_event)
          /\ gen' = "suspended"
          /\ gpos' = "finally"
          /\ UNCHANGED <<pulled, raised, idx>>
       \/ \E msg \in Messages :
            /\ raised' = Str(msg)
            /\ gen' = "failed"
            /\ gpos' = "end"
            /\ UNCHANGED <<pulled, idx, events>>
    /\ UNCHANGED handlerVars
    /\ UNCHANGED <<client, disconnected>>

\* for chunk in stream_ref: the iterator delivers a chunk, is exhausted
\* (yield done) or raises (except Exception: yield error).
NextChunk ==
    /\ At("iter")
    /\ \/ /\ Len(pulled) < MaxChunks
          /\ \E ps \in SeqUpTo(Parts, MaxParts - parts_delivered(pulled)) :
               /\ pulled' = Append(pulled, Chunk(shape, ps))
               /\ idx' = 1
               /\ gpos' = IF ps = <<>> THEN "iter" ELSE "text"
          /\ gen' = "running"
          /\ UNCHANGED <<raised, events>>
       \/ /\ events' = Append(events, done_event)
          /\ gen' = "suspended"
          /\ gpos' = "finally"
          /\ UNCHANGED <<pulled, raised, idx>>
       \/ \E msg \in Messages :
            /\ raised' = Str(msg)
            /\ events' = Append(events, error_event(msg))
            /\ gen' = "suspended"
            /\ gpos' = "finally"
            /\ UNCHANGED <<pulled, idx>>
    /\ UNCHANGED handlerVars
    /\ UNCHANGED <<client, disconnected>>

\* The textual projection of the current part.
PartText ==
    /\ At("text")
    /\ LET part == current_parts[idx]
       IN IF has_text(part)
          THEN /\ events' = Append(events, text_event(part))
               /\ gen' = "suspended"
          ELSE /\ gen' = "running"
               /\ UNCHANGED events
    /\ gpos' = "inline"
    /\ UNCHANGED handlerVars
    /\ UNCHANGED <<client, pulled, raised, idx, disconnected>>

\* The inline-data projection of the current part, then on to the next part
\* or the next chunk.
PartInline ==
    /\ At("inline")
    /\ LET part == current_parts[idx]
       IN IF has_image(part)
          THEN /\ events' = Append(events, image_event(part))
               /\ gen' = "suspended"
          ELSE /\ gen' = "running"
               /\ UNCHANGED events
    /\ IF idx < Len(current_parts)
       THEN idx' = idx + 1 /\ gpos' = "text"
       ELSE idx' = idx /\ gpos' = "iter"
    /\ UNCHANGED handlerVars
    /\ UNCHANGED <<client, pulled, raised, disconnected>>

\* Close without the inner try: an exception of close() leaves the generator.
CloseSurfaces ==
    /\ At("finally")
    /\ \E close_raises \in BOOLEAN :
         /\ client' = IF close_raises THEN "close_failed" ELSE "closed"
         /\ gen' = IF close_raises THEN "failed" ELSE "closed"
    /\ gpos' = "end"
    /\ UNCHANGED handlerVars
    /\ UNCHANGED <<pulled, raised, idx, events, disconnected>>

\* Close with the done frame yielded in the finally block.
CloseYieldsDone ==
    /\ At("finally")
    /\ \E close_raises \in BOOLEAN :
         client' = IF close_raises THEN "close_failed" ELSE "closed"
    /\ events' = Append(events, done_event)
    /\ gen' = "closed"
    /\ gpos' = "end"
    /\ UNCHANGED handlerVars
    /\ UNCHANGED <<pulled, raised, idx, disconnected>>

\* finally: try: client_ref.close() except Exception: pass
Close ==
    /\ At("finally")
    /\ \E close_raises \in BOOLEAN :
         client' = IF close_raises THEN "close_failed" ELSE "closed"
    /\ gen' = "closed"
    /\ gpos' = "end"
    /\ UNCHANGED handlerVars
    /\ UNCHANGED <<pulled, raised, idx, events, disconnected>>

\* The client goes away and the generator is closed. One that never started is
\* dropped as it is; one suspended at a yield gets GeneratorExit there, which
\* no except clause of event_stream catches, so its finally block runs.
Disconnect ==
    /\ gen \in {"created", "suspended"}
    /\ disconnected' = TRUE
    /\ gen' = "closed"
    /\ IF gen = "created"
       THEN UNCHANGED <<gpos, client>>
       ELSE /\ gpos' = "end"
            /\ \E close_raises \in BOOLEAN :
                 client' = IF close_raises THEN "close_failed" ELSE "closed"
    /\ UNCHANGED handlerVars
    /\ UNCHANGED <<pulled, raised, idx, events>>

Next ==
    \/ ResolveUser
    \/ ValidateCredit
    \/ GetApiKey
    \/ BuildClient
    \/ CallSync
    \/ CallStream
    \/ NextChunk
    \/ PartText
    \/ PartInline
    \/ Close
    \/ Disconnect

Spec == Init /\ [][Next]_vars

\* ------------------------------------------------------- token service

SecondsPerMinute == 60
TicksPerMinute == SecondsPerMinute * TicksPerSecond
\* The clock starts late enough that no timestamp of the model is negative.
ClockStart == 2 * TicksPerMinute
ClockEnd == ClockStart + MaxMinutes * TicksPerMinute

\* int(t.timestamp()) of the instant t
timestamp(t) == t \div TicksPerSecond

Configs ==
    [jwt_secret : {None, Str(""), Str("jwt-secret")},
     master_key : {None, Str(""), Str("master-key")},
     access_token_exp_minutes : {1, 3}]

Raised(type, msg) == [kind |-> "raised", type |-> type, msg |-> msg]

\* _get_secret testing `is not None` where the code tests truth.
get_secret_not_none(cfg) ==
    IF cfg.jwt_secret # None THEN Ok(cfg.jwt_secret.val)
    ELSE IF cfg.master_key # None THEN Ok(cfg.master_key.val)
    ELSE Raised("RuntimeError",
                "JWT secret not configured. Set jwt_secret or master_key.")

\* _get_secret(config)
get_secret(cfg) ==
    IF Truthy(cfg.jwt_secret) THEN Ok(cfg.jwt_secret.val)
    ELSE IF Truthy(cfg.master_key) THEN Ok(cfg.master_key.val)
    ELSE Raised("RuntimeError",
                "JWT secret not configured. Set jwt_secret or master_key.")

\* The HMAC of a compact token: it binds the key, the header and the payload.
Signature(key, alg, payload) == [key |-> key, alg |-> alg, payload |-> payload]

\* jwt.encode(payload, key, algorithm=alg)
jwt_encode(payload, key, alg) ==
    [kind |-> "jwt", alg |-> alg, payload |-> payload,
     sig |-> Signature(key, alg, payload)]

\* jwt.decode(token, key, algorithms=algorithms) at instant t: the header's
\* algorithm, then the signature, then the registered claims (iat, exp).
jwt_decode(tok, key, algorithms, t) ==
    IF tok.kind # "jwt" THEN Raised("DecodeError", "Not enough segments")
    ELSE IF tok.alg \notin algorithms
         THEN Raised("InvalidAlgorithmError", "The specified alg value is not allowed")
    ELSE IF tok.sig # Signature(key, tok.alg, tok.payload)
         THEN Raised("InvalidSignatureError", "Signature verification failed")
    ELSE IF tok.payload.iat * TicksPerSecond > t
         THEN Raised("ImmatureSignatureError", "The token is not yet valid (iat)")
    ELSE IF tok.payload.exp * TicksPerSecond <= t
         THEN Raised("ExpiredSignatureError", "Signature has expired")
    ELSE Ok(tok.payload)

\* sign_access_token(user_id=..., config=..., jti=..., expires_minutes=...) at t
sign_access_token(uid, cfg, jti, expires_minutes, t) ==
    LET exp_minutes == IF expires_minutes # None /\ expires_minutes.val # 0
                       THEN expires_minutes.val
                       ELSE cfg.access_token_exp_minutes
        payload == [sub |-> uid, jti |-> jti, iat |-> timestamp(t),
                    exp |-> timestamp(t + exp_minutes * TicksPerMinute)]
        secret == get_secret(cfg)
    IN IF secret.kind # "ok" THEN secret
       ELSE Ok(jwt_encode(payload, secret.value, "HS256"))

ExpiredMessage == "Access token expired"
InvalidPrefix == "Invalid access token: "

\* verify_access_token with one except clause for every jwt error.
verify_access_token_one_clause(tok, cfg, t) ==
    LET secret == get_secret(cfg)
    IN IF secret.kind # "ok" THEN secret
       ELSE LET r == jwt_decode(tok, secret.value, {"HS256"}, t)
            IN IF r.kind = "ok" THEN r
               ELSE Raised("ValueError", InvalidPrefix \o r.msg)

\* verify_access_token decoding the claims without checking the signature.
verify_access_token_unverified(tok, cfg, t) ==
    LET secret == get_secret(cfg)
    IN IF secret.kind # "ok" THEN secret
       ELSE IF tok.kind # "jwt"
            THEN Raised("ValueError", InvalidPrefix \o "Not enough segments")
            ELSE IF tok.payload.exp * TicksPerSecond <= t
                 THEN Raised("ValueError", ExpiredMessage)
                 ELSE Ok(tok.payload)

\* verify_access_token(token, config) at t
verify_access_token(tok, cfg, t) ==
    LET secret == get_secret(cfg)
    IN IF secret.kind # "ok" THEN secret
       ELSE LET r == jwt_decode(tok, secret.value, {"HS256"}, t)
            IN IF r.kind = "ok" THEN r
               ELSE IF r.type = "ExpiredSignatureError"
                    THEN Raised("ValueError", ExpiredMessage)
                    ELSE Raised("ValueError", InvalidPrefix \o r.msg)

Subjects == {"u1"}
TokenIds == {"jti-1"}
Lifetimes == {None, Num(-1), Num(0), Num(2)}

InitTok ==
    /\ pc = "resolve"
    /\ request = [stream |-> FALSE]
    /\ user_id = None
    /\ response = None
    /\ client = "none"
    /\ upstream_calls = <<>>
    /\ shape = "direct"
    /\ pulled = <<>>
    /\ raised = None
    /\ resp = None
    /\ idx = 0
    /\ gen = "none"
    /\ gpos = "none"
    /\ events = <<>>
    /\ disconnected = FALSE
    /\ config \in Configs
    /\ now = ClockStart
    /\ sign_args = None
    /\ token = None
    /\ verdict = None
    /\ AuthIdle
    /\ GateIdle

\* A caller signs an access token.
Sign ==
    /\ \E uid \in Subjects, jti \in TokenIds, expires_minutes \in Lifetimes :
         LET r == sign_access_token(uid, config, jti, expires_minutes, now)
         IN /\ sign_args' = [user_id |-> uid, jti |-> jti,
                             expires_minutes |-> expires_minutes]
            /\ verdict' = [op |-> "sign", result |-> r]
            /\ token' = IF r.kind = "ok" THEN r.value ELSE None
    /\ UNCHANGED <<config, now>>
    /\ UNCHANGED <<routeVars, authVars, gateVars>>

\* Time passes: a tick, or a minute.
Tick ==
    /\ \E d \in {1, TicksPerMinute} :
         /\ d = 1 => (now % TicksPerMinute) < MaxFineTicks
         /\ now + d <= ClockEnd
         /\ now' = now + d
    /\ verdict' = None
    /\ UNCHANGED <<config, sign_args, token>>
    /\ UNCHANGED <<routeVars, authVars, gateVars>>

\* What a holder who does not know the secret can turn a token into.
Forgeries(tok) ==
    { [kind |-> "garbage"],
      [tok EXCEPT !.alg = "none"],
      [tok EXCEPT !.alg = "HS512", !.sig = Signature(tok.sig.key, "HS512", tok.payload)],
      [tok EXCEPT !.payload.exp = @ + SecondsPerMinute],
      jwt_encode(tok.payload, "guessed-key", "HS256") }

\* The token is altered on its way back to the gateway.
Tamper ==
    /\ token # None
    /\ token.kind = "jwt"
    /\ token.sig = Signature(token.sig.key, "HS256", token.payload)
    /\ token' \in Forgeries(token)
    /\ verdict' = None
    /\ UNCHANGED <<config, now, sign_args>>
    /\ UNCHANGED <<routeVars, authVars, gateVars>>

\* Tokens that did not come from this gateway's sign_access_token.
ForeignTokens(t) ==
    { [kind |-> "garbage"],
      jwt_encode([sub |-> "u1", jti |-> "jti-x", iat |-> timestamp(t),
                  exp |-> timestamp(t + TicksPerMinute)],
                 "guessed-key", "HS256") }

\* A request presents a token of its own making.
Present ==
    /\ token' \in ForeignTokens(now)
    /\ sign_args' = None
    /\ verdict' = None
    /\ UNCHANGED <<config, now>>
    /\ UNCHANGED <<routeVars, authVars, gateVars>>

\* A protected route verifies the token in hand.
Verify ==
    /\ token # None
    /\ verdict' = [op |-> "verify",
                   result |-> verify_access_token(token, config, now)]
    /\ UNCHANGED <<config, now, sign_args, token>>
    /\ UNCHANGED <<routeVars, authVars, gateVars>>

NextTok ==
    \/ Sign
    \/ Tick
    \/ Tamper
    \/ Present
    \/ Verify

SpecTok == InitTok /\ [][NextTok]_vars

\* ------------------------------------------------ credential resolution

\* hash_token(token): the digest stands for the token it was made of.
hash_token(tok) == [sha256 |-> tok]

\* The rejections of the resolver.
InvalidCredential == HTTPException(401, "InvalidCredential")
ExpiredCredential == HTTPException(401, "ExpiredCredential")
Unauthenticated == HTTPException(401, "Unauthenticated")

\* API keys a request may present; the store knows two of them by digest, one
\* owned by tenant u2 and one without an owner.
ApiKeys == {"key-u2", "key-orphan", "key-unknown"}
findApiKeyByHash(digest) ==
    IF digest = hash_token("key-u2") THEN APIKeyRecord(Str("u2"))
    ELSE IF digest = hash_token("key-orphan") THEN APIKeyRecord(None)
    ELSE None

\* verify_jwt_or_api_key_or_master: bearer token, else API key, else master
\* key, else unauthenticated; with the operations it attempted.
verify_jwt_or_api_key_or_master(c, cfg, t) ==
    IF c.bearer # None
    THEN LET r == verify_access_token(c.bearer, cfg, t)
         IN [steps |-> << "verify_access_token" >>,
             result |->
                IF r.kind = "ok"
                THEN Ok(AuthResult(None, FALSE, Str(r.value.sub),
                                   [kind |-> "session"]))
                ELSE IF r.msg = ExpiredMessage THEN ExpiredCredential
                ELSE InvalidCredential]
    ELSE IF c.api_key # None
    THEN LET rec == findApiKeyByHash(hash_token(c.api_key.val))
         IN [steps |-> << "findApiKeyByHash" >>,
             result |-> IF rec = None THEN InvalidCredential
                        ELSE Ok(AuthResult(rec, FALSE, None, None))]
    ELSE IF c.master # None
    THEN [steps |-> << "compare_master_key" >>,
          result |-> IF Truthy(cfg.master_key) /\ c.master = cfg.master_key
                     THEN Ok(AuthResult(None, TRUE, None, None))
                     ELSE Unauthenticated]
    ELSE [steps |-> <<>>, result |-> Unauthenticated]

ProfileMasterDetail == "When using master key, 'user' query parameter is required"

\* profile_target without the branch for the master key.
profile_target_no_master_branch(given, user) ==
    LET target == IF Truthy(given.user_id) THEN given.user_id
                  ELSE IF given.api_key # None THEN given.api_key.user_id
                  ELSE user
    IN IF ~Truthy(target)
       THEN HTTPException(401, "User not resolved")
       ELSE Ok(target)

\* get_profile: target_user_id from the resolver's tuple and the user parameter
profile_target(given, user) ==
    IF given.is_master
    THEN IF ~Truthy(user)
         THEN HTTPException(400, ProfileMasterDetail)
         ELSE Ok(user)
    ELSE LET target == IF Truthy(given.user_id) THEN given.user_id
                       ELSE IF given.api_key # None THEN given.api_key.user_id
                       ELSE None
         IN IF ~Truthy(target)
            THEN HTTPException(401, "User not resolved")
            ELSE Ok(target)

\* Rows of the users table.
StoredUsers == {"u1", "u2"}
\* Values of get_profile's user query parameter.
UserParams == {None, Str(""), Str("u1"), Str("ghost")}

\* Configurations under which tokens can be signed and verified.
AuthConfigs ==
    {c \in Configs : get_secret(c).kind = "ok" /\ c.access_token_exp_minutes = 1}

\* When the request arrives: one minute after its tokens were signed.
AuthTime == ClockStart + TicksPerMinute

\* Bearer tokens a request may carry: none, one signed for u1 and still
\* valid, one signed for u1 and expired, and forgeries of the valid one.
BearerTokens(cfg) ==
    LET good == sign_access_token("u1", cfg, "jti-1", Num(2), ClockStart).value
        stale == sign_access_token("u1", cfg, "jti-2", None, ClockStart).value
    IN {None, good, stale} \cup Forgeries(good)

Credentials(cfg) ==
    { c \in [route : {"profile", "image"}, user : UserParams,
             bearer : BearerTokens(cfg),
             api_key : {None} \cup {Str(k) : k \in ApiKeys},
             master : {None, Str("master-key"), Str("wrong-key")}] :
        c.route = "image" => c.user = None }

InitAuth ==
    /\ pc = "auth"
    /\ request = [stream |-> FALSE]
    /\ user_id = None
    /\ response = None
    /\ client = "none"
    /\ upstream_calls = <<>>
    /\ shape = "direct"
    /\ pulled = <<>>
    /\ raised = None
    /\ resp = None
    /\ idx = 0
    /\ gen = "none"
    /\ gpos = "none"
    /\ events = <<>>
    /\ disconnected = FALSE
    /\ config \in AuthConfigs
    /\ now = AuthTime
    /\ sign_args = None
    /\ token = None
    /\ verdict = None
    /\ creds \in Credentials(config)
    /\ auth_result = None
    /\ steps = <<>>
    /\ GateIdle

authFrame ==
    <<request, client, upstream_calls, resp, streamVars, tokenVars, creds,
      gateVars>>

\* Depends(verify_jwt_or_api_key_or_master): the route runs only when the
\* resolver returns a tuple.
Authenticate ==
    /\ pc = "auth"
    /\ LET a == verify_jwt_or_api_key_or_master(creds, config, now)
       IN /\ steps' = a.steps
          /\ IF a.result.kind = "ok"
             THEN /\ auth_result' = a.result.value
                  /\ pc' = "resolve"
                  /\ UNCHANGED response
             ELSE /\ response' = a.result
                  /\ pc' = "done"
                  /\ UNCHANGED auth_result
    /\ UNCHANGED user_id
    /\ UNCHANGED authFrame

\* generate_image is entered with the tuple the resolver returned.
ResolveUserAuth ==
    /\ pc = "resolve"
    /\ creds.route = "image"
    /\ resolve_user(auth_result)
    /\ UNCHANGED <<auth_result, steps>>
    /\ UNCHANGED authFrame

\* get_profile: api_key, is_master, resolved_user_id = auth_result ...
GetProfileTarget ==
    /\ pc = "resolve"
    /\ creds.route = "profile"
    /\ LET r == profile_target(auth_result, creds.user)
       IN IF r.kind = "ok"
          THEN /\ user_id' = r.value
               /\ pc' = "user"
               /\ UNCHANGED response
          ELSE /\ response' = r
               /\ pc' = "done"
               /\ UNCHANGED user_id
    /\ UNCHANGED <<auth_result, steps>>
    /\ UNCHANGED authFrame

\* user_obj = db.query(User)...first(); if not user_obj: raise 404
GetProfileUser ==
    /\ pc = "user"
    /\ steps' = Append(steps, "db.query(User)")
    /\ response' = IF user_id.val \in StoredUsers
                   THEN [kind |-> "profile", user_id |-> user_id.val]
                   ELSE HTTPException(404, "User '" \o user_id.val \o "' not found")
    /\ pc' = "done"
    /\ UNCHANGED <<user_id, auth_result>>
    /\ UNCHANGED authFrame

NextAuth ==
    \/ Authenticate
    \/ ResolveUserAuth
    \/ ValidateCredit
    \/ GetProfileTarget
    \/ GetProfileUser

SpecAuth == InitAuth /\ [][NextAuth]_vars

\* ------------------------------------ the gate under concurrent requests

\* Two generation requests of one tenant, each in its own execution context.
Requests == {1, 2}

InitGate ==
    /\ pc = "gate"
    /\ request = [stream |-> FALSE]
    /\ user_id = None
    /\ response = None
    /\ client = "none"
    /\ upstream_calls = <<>>
    /\ shape = "direct"
    /\ pulled = <<>>
    /\ raised = None
    /\ resp = None
    /\ idx = 0
    /\ gen = "none"
    /\ gpos = "none"
    /\ events = <<>>
    /\ disconnected = FALSE
    /\ TokenIdle
    /\ AuthIdle
    /\ store \in BudgetStates
    /\ reqs = [r \in Requests |->
                 [pc |-> "credit", seen |-> None, calls |-> 0, response |-> None]]
    /\ ledger = <<>>

\* Admit waiting until no other request is between admission and its return.
AdmitSerialized(r) ==
    /\ reqs[r].pc = "credit"
    /\ \A o \in Requests \ {r} : reqs[o].pc # "build"
    /\ LET v == validate_user_credit(store)
       IN reqs' = [reqs EXCEPT ![r] =
                     IF v.kind = "ok"
                     THEN [@ EXCEPT !.pc = "build", !.seen = store]
                     ELSE [@ EXCEPT !.pc = "done", !.seen = store, !.response = v]]
    /\ UNCHANGED <<store, ledger>>
    /\ UNCHANGED <<routeVars, tokenVars, authVars>>

\* validate_user_credit(db, _user_id) of request r: it reads the store and
\* raises or returns.
Admit(r) ==
    /\ reqs[r].pc = "credit"
    /\ LET v == validate_user_credit(store)
       IN reqs' = [reqs EXCEPT ![r] =
                     IF v.kind = "ok"
                     THEN [@ EXCEPT !.pc = "build", !.seen = store]
                     ELSE [@ EXCEPT !.pc = "done", !.seen = store, !.response = v]]
    /\ UNCHANGED <<store, ledger>>
    /\ UNCHANGED <<routeVars, tokenVars, authVars>>

\* The rest of generate_image for request r: it fails before the provider
\* call (api key, client or config construction), or makes the call, which
\* fails or answers.
Provide(r) ==
    /\ reqs[r].pc = "build"
    /\ \E outcome \in {"not_configured", "construct_raises", "call_raises", "answered"} :
         reqs' = [reqs EXCEPT ![r] =
            [@ EXCEPT
               !.pc = "done",
               !.calls = IF outcome \in {"call_raises", "answered"} THEN 1 ELSE 0,
               !.response =
                  CASE outcome = "not_configured" ->
                         HTTPException(500, "Gemini provider api_key is not configured on the gateway")
                    [] outcome = "answered" -> [kind |-> "answer"]
                    [] OTHER -> GenerationFailed("quota exceeded")]]
    /\ UNCHANGED <<store, ledger>>
    /\ UNCHANGED <<routeVars, tokenVars, authVars>>

\* The collaborator store debits the tenant for recorded usage.
Debit ==
    /\ store.exists
    /\ store.spend < MaxSpend
    /\ store' = [store EXCEPT
                   !.spend = @ + 1,
                   !.credit = IF @ = NoLimit THEN @ ELSE Num(@.val - 1)]
    /\ UNCHANGED <<reqs, ledger>>
    /\ UNCHANGED <<routeVars, tokenVars, authVars>>

NextGate ==
    \/ \E r \in Requests : Admit(r)
    \/ \E r \in Requests : Provide(r)
    \/ Debit

SpecGate == InitGate /\ [][NextGate]_vars

\* ------------------------------------------------------------ properties

EventType(e) == e.data.type
IsTerminal(e) == EventType(e) \in {"done", "error"}
Last(seq) == seq[Len(seq)]
\* The client read the stream to its end.
ConsumedToEnd == gen = "closed" /\ ~disconnected

\* C1: a stream holds at most one terminal frame (done or error), nothing
\* follows it, and a stream read to its end ends with one.
C1_OneTerminalLast ==
    /\ \A i \in 1..Len(events) : IsTerminal(events[i]) => i = Len(events)
    /\ ConsumedToEnd => events # <<>> /\ IsTerminal(Last(events))

C1_Witness ==
    /\ ConsumedToEnd
    /\ Len(events) = 3
    /\ EventType(Last(events)) = "done"

\* The mime type an image goes out with, given the type its payload declares.
ExpectedMime(declared) ==
    IF declared.kind = "str" /\ Len(declared.val) >= 6
       /\ SubSeq(declared.val, 1, 6) = "image/"
    THEN declared.val
    ELSE "image/png"

\* A part carries a non-empty byte payload.
CarriesImage(part) ==
    /\ part.inline_data # None
    /\ part.inline_data.data.kind \in {"bytes", "bytearray"}
    /\ Len(part.inline_data.data.val) > 0

\* A part carries a non-empty text.
CarriesText(part) == part.text.kind = "str" /\ Len(part.text.val) > 0

\* The frames one part stands for: its text, then its image.
PartFrames(part) ==
    (IF CarriesText(part)
     THEN << [data |-> [type |-> IF part.thought THEN "thought" ELSE "text",
                        content |-> part.text.val]] >>
     ELSE <<>>)
    \o (IF CarriesImage(part)
        THEN << [data |-> [type |-> "image",
                           mimeType |-> ExpectedMime(part.inline_data.mime_type),
                           base64 |-> b64encode(part.inline_data.data.val)]] >>
        ELSE <<>>)

\* The parts of a chunk, wherever it carries them.
AllParts(chunk) ==
    chunk.parts
    \o (IF chunk.candidates # <<>> THEN chunk.candidates[1].content.parts ELSE <<>>)

RECURSIVE PartsFrames(_)
PartsFrames(ps) ==
    IF ps = <<>> THEN <<>> ELSE PartFrames(Head(ps)) \o PartsFrames(Tail(ps))

\* The frames a chunk sequence stands for, chunk by chunk and part by part.
RECURSIVE Frames(_)
Frames(chunks) ==
    IF chunks = <<>> THEN <<>>
    ELSE PartsFrames(AllParts(Head(chunks))) \o Frames(Tail(chunks))

\* C2: once the upstream iterator has raised, the stream is the frames of the
\* chunks delivered before, then one error frame with the exception's
\* message; there is no done frame and no exception leaves the generator.
C2_RaiseBecomesErrorFrame ==
    /\ gen # "failed"
    /\ raised # None =>
         /\ events = Frames(pulled)
                     \o << [data |-> [type |-> "error", message |-> raised.val]] >>
         /\ \A i \in 1..Len(events) : EventType(events[i]) # "done"

C2_Witness ==
    /\ raised = Str("quota exceeded")
    /\ Len(events) = 2
    /\ EventType(events[1]) = "thought"
    /\ EventType(events[2]) = "error"
    /\ gen = "closed"

\* C3: while the upstream raises nothing, the frames sent are those of the
\* chunks delivered so far, in chunk order and part order (text or thought
\* first, then image); when the chunks are exhausted one done frame follows.
C3_FramesFollowParts ==
    /\ (raised = None /\ gpos = "iter") => events = Frames(pulled)
    /\ (raised = None /\ ConsumedToEnd) =>
          events = Frames(pulled) \o << [data |-> [type |-> "done"]] >>

C3_Witness ==
    /\ ConsumedToEnd
    /\ Len(pulled) = 3
    /\ \A i \in 1..3 : Len(AllParts(pulled[i])) = 1
    /\ Len(events) = 4
    /\ EventType(events[1]) = "thought"
    /\ EventType(events[2]) = "text"
    /\ EventType(events[3]) = "image"
    /\ EventType(events[4]) = "done"

\* Handling of the request is over: the handler returned or raised, and a
\* stream it returned has ended.
HandlingFinished ==
    /\ pc = "done"
    /\ response.kind = "stream" => gen \in {"closed", "failed"}

\* C4: once handling of a request that constructed an upstream client is
\* over, the client's close has been called.
C4_ClientReleased ==
    (HandlingFinished /\ client # "none") => client \in {"closed", "close_failed"}

\* The request was turned down by identity resolution or by the credit gate.
AdmissionRejected ==
    /\ response.kind = "error"
    /\ response.status_code \in {400, 401, 402, 403, 404}

\* C5: an upstream client, a provider call or a frame exists only after
\* identity resolution and the credit check have both passed; a request either
\* of them rejects has none of the three.
C5_GateBeforeUpstream ==
    (client # "none" \/ upstream_calls # <<>> \/ gen # "none" \/ events # <<>>)
        => /\ user_id # None
           /\ pc \notin {"resolve", "credit"}
           /\ ~AdmissionRejected

C5_Witness ==
    /\ pc = "done"
    /\ user_id # None
    /\ response.kind = "error"
    /\ response.status_code = 402
    /\ client = "none"

HasImagePart(ps) == \E i \in 1..Len(ps) : CarriesImage(ps[i])

NoImageParts == HTTPException(502, "Image generation returned no image parts")

\* C6: a synchronous response without any part carrying a non-empty byte
\* payload fails with the explicit 502 "no image parts" error; a success
\* response exists only when some part carried one, and its image is not empty.
C6_NoImageIsFailure ==
    (pc = "done" /\ resp # None) =>
        /\ response.kind \in {"json", "error"}
        /\ ~HasImagePart(AllParts(resp)) => response = NoImageParts
        /\ response.kind = "json" =>
              /\ HasImagePart(AllParts(resp))
              /\ response.base64 # <<>>

C6_Witness ==
    /\ pc = "done"
    /\ resp # None
    /\ Len(AllParts(resp)) = 2
    /\ ~HasImagePart(AllParts(resp))
    /\ response = NoImageParts

\* The non-empty texts of the parts flagged (or not flagged) as thoughts.
RECURSIVE TextsOf(_, _)
TextsOf(ps, thought) ==
    IF ps = <<>> THEN <<>>
    ELSE (IF CarriesText(Head(ps)) /\ Head(ps).thought = thought
          THEN << Head(ps).text.val >> ELSE <<>>)
         \o TextsOf(Tail(ps), thought)

\* C7: a successful synchronous response lists every non-empty text of the
\* non-thought parts and every non-empty text of the thought parts, in part
\* order, and carries the first byte payload with its mime type.
C7_AllTextsCollected ==
    response.kind = "json" =>
        LET ps == AllParts(resp)
            images == SelectSeq(ps, CarriesImage)
        IN /\ response.texts = TextsOf(ps, FALSE)
           /\ response.thoughts = TextsOf(ps, TRUE)
           /\ images # <<>>
           /\ response.base64 = b64encode(images[1].inline_data.data.val)
           /\ response.mimeType = ExpectedMime(images[1].inline_data.mime_type)

RECURSIVE Flatten(_)
Flatten(chunks) ==
    IF chunks = <<>> THEN <<>> ELSE AllParts(Head(chunks)) \o Flatten(Tail(chunks))

IsImageEvent(e) == EventType(e) = "image"
ImageEvents == SelectSeq(events, IsImageEvent)

\* C8: every image sent, as a stream frame or as the synchronous response,
\* has the mime type its payload declares when that is a string starting with
\* "image/", and "image/png" otherwise.
C8_MimeResolution ==
    /\ ImageEvents # <<>> =>
       LET sources == SelectSeq(Flatten(pulled), CarriesImage)
       IN /\ Len(ImageEvents) <= Len(sources)
          /\ \A i \in 1..Len(ImageEvents) :
                ImageEvents[i].data.mimeType =
                    ExpectedMime(sources[i].inline_data.mime_type)
    /\ response.kind = "json" =>
          LET sources == SelectSeq(AllParts(resp), CarriesImage)
          IN /\ sources # <<>>
             /\ response.mimeType = ExpectedMime(sources[1].inline_data.mime_type)

C8_Witness ==
    /\ Len(ImageEvents) = 3
    /\ ImageEvents[1].data.mimeType = "image/jpeg"
    /\ ImageEvents[2].data.mimeType = "image/png"
    /\ Flatten(pulled)[2].inline_data.mime_type = Str("text/plain")
    /\ Flatten(pulled)[3].inline_data.mime_type = None

\* The last call was a verify_access_token call.
Verified == verdict # None /\ verdict.op = "verify"

\* The lifetime in minutes that a sign call asks for.
RequestedMinutes(args, cfg) ==
    IF args.expires_minutes # None THEN args.expires_minutes.val
    ELSE cfg.access_token_exp_minutes

\* C9: verifying a signed token before its expiry returns the subject and the
\* token id given to sign_access_token, and exp - iat is 60 times the lifetime
\* in minutes: the supplied one when one is supplied, else the configured one.
C9_SignVerifyRoundTrip ==
    (Verified /\ verdict.result.kind = "ok") =>
        /\ sign_args # None
        /\ verdict.result.value.sub = sign_args.user_id
        /\ verdict.result.value.jti = sign_args.jti
        /\ verdict.result.value.exp - verdict.result.value.iat
              = SecondsPerMinute * RequestedMinutes(sign_args, config)

\* The token carries a valid HS256 signature under the configured secret.
CorrectlySigned(tok, cfg) ==
    /\ get_secret(cfg).kind = "ok"
    /\ tok.kind = "jwt"
    /\ tok.alg = "HS256"
    /\ tok.sig = Signature(get_secret(cfg).value, "HS256", tok.payload)

\* C10: verifying a correctly signed token whose exp has passed raises the
\* "Access token expired" error and returns no claims; a token that is not
\* correctly signed raises the "Invalid access token: ..." error, never the
\* expired one.
C10_ExpiredIsDistinct ==
    (Verified /\ get_secret(config).kind = "ok") =>
        /\ (CorrectlySigned(token, config)
            /\ token.payload.exp * TicksPerSecond <= now)
              => verdict.result = Raised("ValueError", ExpiredMessage)
        /\ ~CorrectlySigned(token, config)
              => /\ verdict.result.kind = "raised"
                 /\ verdict.result.type = "ValueError"
                 /\ verdict.result.msg # ExpiredMessage
                 /\ startswith(verdict.result.msg, InvalidPrefix)

C10_Witness ==
    /\ Verified
    /\ sign_args # None
    /\ sign_args.expires_minutes = Num(2)
    /\ CorrectlySigned(token, config)
    /\ token.payload.iat * TicksPerSecond < now
    /\ verdict.result = Raised("ValueError", ExpiredMessage)

\* The last call was a sign_access_token call.
Signed == verdict # None /\ verdict.op = "sign"

\* C11: every token sign_access_token returns, whatever lifetime is supplied
\* (zero and negative ones too) and whatever the default, has exp > iat.
C11_ExpAfterIat ==
    (Signed /\ verdict.result.kind = "ok") =>
        verdict.result.value.payload.exp > verdict.result.value.payload.iat

\* A secret setting that holds a usable (non-empty) secret.
Configured(v) == v # None /\ v.val # ""

\* C12: sign_access_token signs (HS256) with jwt_secret when one is configured,
\* else with master_key; with neither it raises the configuration error and
\* returns no token; a returned token is never signed with an empty secret.
C12_SecretResolution ==
    Signed =>
        LET r == verdict.result
        IN /\ Configured(config.jwt_secret) =>
                 r.kind = "ok" /\ r.value.sig.key = config.jwt_secret.val
           /\ (~Configured(config.jwt_secret) /\ Configured(config.master_key)) =>
                 r.kind = "ok" /\ r.value.sig.key = config.master_key.val
           /\ (~Configured(config.jwt_secret) /\ ~Configured(config.master_key)) =>
                 /\ r.kind = "raised"
                 /\ r.type = "RuntimeError"
                 /\ token = None
           /\ r.kind = "ok" =>
                 /\ r.value.alg = "HS256"
                 /\ r.value.sig.key # ""
                 /\ r.value.sig = Signature(r.value.sig.key, "HS256", r.value.payload)
                 /\ token = r.value

C12_Witness ==
    /\ Signed
    /\ config.jwt_secret = Str("")
    /\ config.master_key = Str("master-key")
    /\ verdict.result.kind = "ok"
    /\ verdict.result.value.sig.key = "master-key"

C12_WitnessNoSecret ==
    /\ Signed
    /\ config.jwt_secret = Str("")
    /\ config.master_key = Str("")
    /\ verdict.result.kind = "raised"

\* The resolver has run on the request.
Resolved == creds # None /\ pc # "auth"

\* The bearer token verifies at this instant: right signature, not expired.
BearerValid ==
    /\ CorrectlySigned(creds.bearer, config)
    /\ creds.bearer.payload.iat * TicksPerSecond <= now
    /\ now < creds.bearer.payload.exp * TicksPerSecond

\* The bearer token is correctly signed and its exp has passed.
BearerExpired ==
    /\ CorrectlySigned(creds.bearer, config)
    /\ creds.bearer.payload.exp * TicksPerSecond <= now

C13_WitnessInvalid ==
    /\ Resolved
    /\ creds.bearer # None
    /\ creds.bearer.kind = "jwt"
    /\ ~CorrectlySigned(creds.bearer, config)
    /\ creds.api_key = Str("key-u2")
    /\ response = InvalidCredential

\* The route has dealt with the resolver's tuple.
RouteResolved == Resolved /\ auth_result # None /\ pc # "resolve"

\* The request names its target tenant (only get_profile has the parameter).
TenantSupplied == creds.user # None /\ creds.user.val # ""

\* The tuple names no tenant: no token subject and no API-key owner.
NoTenantBound ==
    /\ auth_result.user_id = None
    /\ auth_result.api_key = None \/ auth_result.api_key.user_id = None

\* Nothing behind the identity step has happened.
NothingDownstream ==
    /\ user_id = None
    /\ \A i \in 1..Len(steps) : steps[i] # "db.query(User)"
    /\ client = "none"
    /\ upstream_calls = <<>>

C14_WitnessImage ==
    /\ RouteResolved
    /\ auth_result.is_master
    /\ creds.route = "image"
    /\ response = HTTPException(400, MasterDetail)

C14_WitnessSupplied ==
    /\ RouteResolved
    /\ auth_result.is_master
    /\ creds.user = Str("u1")
    /\ response = [kind |-> "profile", user_id |-> "u1"]

C14_WitnessOrphan ==
    /\ RouteResolved
    /\ creds.api_key = Str("key-orphan")
    /\ response = HTTPException(401, "User not resolved")

\* The tenant's credit balance is positive or unlimited.
CreditAvailable(st) == st.credit = NoLimit \/ st.credit.val > 0

\* Request r takes its admission decision in this step.
Decides(r) == reqs[r].pc = "credit" /\ reqs'[r].pc # "credit"

\* C15: for an existing, non-blocked tenant whose credit is positive or
\* unlimited, admission rejects with BudgetExceeded when spend equals a
\* non-null ceiling, admits when spend is one below it, and admits any spend
\* under a null ceiling; the decision step leaves BudgetState as it was.
C15_AdmissionBoundary ==
    [][\A r \in DOMAIN reqs :
         Decides(r) =>
            /\ store' = store
            /\ (store.exists /\ ~store.blocked /\ CreditAvailable(store)) =>
                  /\ (store.ceiling # NoLimit /\ store.spend = store.ceiling.val) =>
                        /\ reqs'[r].pc = "done"
                        /\ reqs'[r].response = HTTPException(402, "BudgetExceeded")
                  /\ (store.ceiling # NoLimit /\ store.spend = store.ceiling.val - 1) =>
                        /\ reqs'[r].pc = "build"
                        /\ reqs'[r].response = None
                  /\ store.ceiling = NoLimit =>
                        /\ reqs'[r].pc = "build"
                        /\ reqs'[r].response = None]_vars

C15_Witness ==
    /\ store # None
    /\ \E r \in DOMAIN reqs :
         /\ reqs[r].seen = store
         /\ store.exists /\ ~store.blocked /\ CreditAvailable(store)
         /\ store.ceiling = Num(2)
         /\ store.spend = 2
         /\ reqs[r].response = HTTPException(402, "BudgetExceeded")
    /\ \E r \in DOMAIN reqs :
         /\ reqs[r].seen # None
         /\ reqs[r].seen.ceiling = Num(2)
         /\ reqs[r].seen.spend = 1
         /\ reqs[r].pc = "build"

\* Request r has passed admission.
Admitted(r) == reqs[r].seen # None /\ reqs[r].response # HTTPException(402, "BudgetExceeded")
                /\ reqs[r].pc # "credit" /\ validate_user_credit(reqs[r].seen).kind = "ok"

\* C18: admission and debit are separate steps and nothing serializes the
\* requests of a tenant: a request waiting for its admission decision can
\* always take it, whatever the other request is doing, and no step of a
\* request (the gate's included) changes spend or credit; only the store's
\* own debit does.
C18_AdmissionNotSerialized ==
    /\ [](\A r \in DOMAIN reqs : reqs[r].pc = "credit" => ENABLED Admit(r))
    /\ [][reqs' # reqs => store' = store]_vars

\* Both requests were admitted on the same reading of a budget that covers
\* one more call, no debit has happened since, and both reached the provider.
C18_Witness ==
    /\ store # None
    /\ store.exists /\ ~store.blocked
    /\ store.ceiling = Num(2)
    /\ store.spend = 1
    /\ \A r \in DOMAIN reqs :
         /\ Admitted(r)
         /\ reqs[r].seen = store
         /\ reqs[r].calls = 1
    /\ DOMAIN reqs = Requests

\* C16: when handling of a request that passed authentication and admission
\* is over, with success or with failure, the route has handed exactly one row
\* to the usage ledger; for a request turned down before, it has handed none.
C16_UsageRecordedOnce ==
    HandlingFinished =>
        Len(ledger) = IF AdmissionRejected THEN 0 ELSE 1

\* C17: once the client has disconnected from an open stream (before the
\* first frame was pulled too), no further chunk is pulled, no further frame
\* is sent, and the upstream client's close has run.
C17_DisconnectReleases ==
    /\ [](disconnected => client \in {"closed", "close_failed"})
    /\ [][disconnected => (pulled' = pulled /\ events' = events)]_vars

\* What a failed provider call is answered with.
UpstreamCallErrors == {GenerationFailed(msg) : msg \in Messages}

\* The handler failed after admission and before any provider call.
ConstructionFailed ==
    /\ pc = "done"
    /\ response.kind = "error"
    /\ ~AdmissionRejected
    /\ upstream_calls = <<>>

\* C19: a failure while the upstream client or the request configuration is
\* built is answered out-of-band, before any frame, with an error the caller
\* can tell from the error of a failed provider call.
C19_ConstructionErrorDistinct ==
    ConstructionFailed =>
        /\ events = <<>>
        /\ gen = "none"
        /\ response \notin UpstreamCallErrors

\* The parts of a chunk or response: the direct ones when there are any, else
\* those of the first candidate's content, else none.
ExtractedParts(chunk) ==
    IF Len(chunk.parts) > 0 THEN chunk.parts
    ELSE IF Len(chunk.candidates) > 0
         THEN chunk.candidates[1].content.parts
         ELSE <<>>

RECURSIVE ExtractedAll(_)
ExtractedAll(chunks) ==
    IF chunks = <<>> THEN <<>>
    ELSE ExtractedParts(Head(chunks)) \o ExtractedAll(Tail(chunks))

\* C20: streaming and non-streaming use the same parts of a chunk or response;
\* a response whose image lies under candidates[0].content.parts yields its
\* image just as a streamed chunk of that shape does.
C20_SameExtraction ==
    /\ (raised = None /\ gpos = "iter") =>
          Len(ImageEvents) = Len(SelectSeq(ExtractedAll(pulled), CarriesImage))
    /\ (pc = "done" /\ resp # None) =>
          IF HasImagePart(ExtractedParts(resp))
          THEN response.kind = "json"
          ELSE response = NoImageParts

\* close() raises in this step.
CloseRaises == client = "open" /\ client' = "close_failed"

\* C21: a close() that raises is swallowed: the step adds no frame, leaves
\* the frames sent (the terminal one too) and the handler's answer as they
\* were, and ends the generator normally; a stream read to its end still ends
\* with its one terminal frame.
C21_CloseFailureSwallowed ==
    /\ [][CloseRaises =>
            /\ events' = events
            /\ response' = response
            /\ raised' = raised
            /\ gen' = "closed"]_vars
    /\ []((client = "close_failed" /\ ~disconnected) =>
            /\ gen = "closed"
            /\ events # <<>>
            /\ IsTerminal(Last(events))
            /\ \A i \in 1..(Len(events) - 1) : ~IsTerminal(events[i]))

C21_Witness ==
    /\ client = "close_failed"
    /\ ~disconnected
    /\ gen = "closed"
    /\ raised = Str("quota exceeded")
    /\ Len(events) = 2
    /\ EventType(events[1]) = "thought"
    /\ EventType(events[2]) = "error"

C21_WitnessDone ==
    /\ client = "close_failed"
    /\ ~disconnected
    /\ raised = None
    /\ Len(events) = 2
    /\ EventType(events[1]) = "image"
    /\ EventType(events[2]) = "done"

StreamingCalls == {"generate_content_stream", "generate_content(stream=True)"}

\* The provider calls issued are of the kind the request asks for.
CallsMatchRequest ==
    \A i \in 1..Len(upstream_calls) :
        IF request.stream THEN upstream_calls[i] \in StreamingCalls
        ELSE upstream_calls[i] = "generate_content"

\* The handler is over for a request that identity and admission let through.
AdmittedAndFinished ==
    /\ pc = "done"
    /\ user_id # None
    /\ ~AdmissionRejected

\* C22 as claimed: every admitted request issues exactly one provider call,
\* the streaming one when stream is asked for and the synchronous one
\* otherwise.
C22_EveryAdmittedCallsOnce ==
    AdmittedAndFinished =>
        /\ Len(upstream_calls) = 1
        /\ CallsMatchRequest

\* C22 as amended: a request that gets as far as the provider call (key
\* configured, client and configuration built) issues exactly one call in that
\* step, of the kind asked for; no other step issues a call, so a request never
\* has more than one, a failed call is not retried, and the streaming branch
\* never goes on to the synchronous call.
C22_OneUpstreamCall ==
    /\ [](Len(upstream_calls) <= 1 /\ CallsMatchRequest)
    /\ [][IF pc = "call"
          THEN Len(upstream_calls') = 1 /\ pc' = "done"
          ELSE upstream_calls' = upstream_calls]_vars

C22_Witness ==
    /\ pc = "done"
    /\ request.stream
    /\ upstream_calls = << "generate_content(stream=True)" >>
    /\ response = GenerationFailed("quota exceeded")
    /\ gen = "none"

\* C23: whatever the token and the configuration (one without jwt_secret and
\* master_key too), verify_access_token returns the verified claims, or raises
\* the "Access token expired" ValueError, or raises the "Invalid access
\* token: ..." ValueError; nothing else leaves it.
C23_ThreeOutcomes ==
    Verified =>
        LET r == verdict.result
        IN \/ /\ r.kind = "ok"
              /\ CorrectlySigned(token, config)
              /\ r.value = token.payload
           \/ r = Raised("ValueError", ExpiredMessage)
           \/ /\ r.kind = "raised"
              /\ r.type = "ValueError"
              /\ r.msg # ExpiredMessage
              /\ startswith(r.msg, InvalidPrefix)

====
